---- MODULE Spec2Model ----
(***************************************************************************)
(* The audio engine hook (src/src/hooks/useAudioEngine.js), the Player     *)
(* component that drives it (src/src/components/AudioPlayer/Player.jsx)    *)
(* and the mapping utility of its sliders (src/src/utils/audioMath.js).    *)
(* The sweep of the sliders is that of the Player in src/unnamed/part_001. *)
(*                                                                         *)
(* React state (isPlaying, isReady, duration, currentTime) and the refs of *)
(* the hook are the variables.  The browser side is modelled by `now`      *)
(* (ctx.currentTime), `nodes` (every AudioBufferSourceNode the engine has  *)
(* created), `loads` (every loadFile() activation and its decode) and the  *)
(* pending requestAnimationFrame callbacks.                                *)
(*                                                                         *)
(* Every action is one browser task: the handler, the React commit that    *)
(* follows it, and the effects that commit runs.  A handler or effect      *)
(* reads React state through the closure of the render that created it,    *)
(* so play() takes the isReady value its closure captured.                 *)
(***************************************************************************)
EXTENDS Integers, Sequences, FiniteSets, TLC

\* ---- bounds of the model ----
NumFiles == 2       \* decodable files 1..NumFiles; file NumFiles+1 is a corrupt payload
MaxCalls == 3       \* loadFile() activations plus buffer source nodes in one behaviour
MaxTime == 3        \* ctx.currentTime stops advancing here
MaxSweepTicks == 2   \* callbacks of the sweep timer in one behaviour

\* ---- program constants ----
Null == 0           \* useRef(null)
NumStages == 4      \* stages per side of the filter chain

Files == 1..(NumFiles + 1)
Corrupt(f) == f = NumFiles + 1
\* decodedData.duration of a file, in clock units
Duration(f) == f + 1

Min(a, b) == IF a < b THEN a ELSE b
Max(a, b) == IF a > b THEN a ELSE b

\* ---- JavaScript numbers, as far as the mapping utility uses them ----
\* A number is a whole number, or a logarithm (what Math.log returns and the differences,
\* quotients, products and sums the mapping functions form from it) in units of 10^-7,
\* or one of Infinity, -Infinity and NaN.  Every operation rounds to the nearest unit,
\* so a frequency is known to the nearest hertz.
Infinity == 1073741824
NaN == 1073741825
\* ln(1 + 2^-(j-1)) in units of 10^-7, for j = 1..25
LnTable ==
    <<6931472, 4054651, 2231436, 1177830, 606246, 307717, 155042, 77821, 38986,
      19512, 9761, 4882, 2441, 1221, 610, 305, 153, 76, 38, 19, 10, 5, 2, 1, 1>>
\* fraction bits of a mantissa in [1, 2)
MantissaBits == 24

IsFinite(x) == -Infinity < x /\ x < Infinity

\* a / b to the nearest whole number, b > 0
RoundDiv(a, b) == (2 * a + b) \div (2 * b)

Pow2(k) == 2^k

\* the largest k with 2^k <= x, for x >= 1
RECURSIVE Exponent(_)
Exponent(x) == IF x < 2 THEN 0 ELSE 1 + Exponent(x \div 2)

\* ln of the mantissa m / 2^MantissaBits in [1, 2): the factors 1 + 2^-j that fit
RECURSIVE LogMantissa(_, _, _)
LogMantissa(m, t, j) ==
    IF j > MantissaBits THEN 0
    ELSE LET u == t + t \div Pow2(j)
         IN IF u <= m THEN LnTable[j + 1] + LogMantissa(m, u, j + 1)
            ELSE LogMantissa(m, t, j + 1)

\* Math.log
MathLog(x) ==
    IF x = NaN \/ x < 0 THEN NaN
    ELSE IF x = 0 THEN -Infinity
    ELSE IF x = Infinity THEN Infinity
    ELSE LET k == Exponent(x)
             m == IF k <= MantissaBits THEN x * Pow2(MantissaBits - k)
                  ELSE x \div Pow2(k - MantissaBits)
         IN k * LnTable[1] + LogMantissa(m, Pow2(MantissaBits), 1)

\* e^r as a mantissa, for r in [0, ln 2)
RECURSIVE ExpMantissa(_, _, _)
ExpMantissa(r, m, j) ==
    IF j > MantissaBits THEN m
    ELSE IF r >= LnTable[j + 1]
         THEN ExpMantissa(r - LnTable[j + 1], m + m \div Pow2(j), j + 1)
         ELSE ExpMantissa(r, m, j + 1)

\* Math.exp
MathExp(v) ==
    IF v = NaN THEN NaN
    ELSE IF v = Infinity THEN Infinity
    ELSE IF v = -Infinity THEN 0
    ELSE LET k == v \div LnTable[1]
             m == ExpMantissa(v - k * LnTable[1], Pow2(MantissaBits), 1)
         IN IF k >= 30 THEN Infinity
            ELSE IF k >= MantissaBits THEN m * Pow2(k - MantissaBits)
            ELSE IF k < -2 THEN 0
            ELSE RoundDiv(m, Pow2(MantissaBits - k))

Sign(x) == IF x < 0 THEN -1 ELSE IF x > 0 THEN 1 ELSE 0

\* a - b
Minus(a, b) ==
    IF a = NaN \/ b = NaN THEN NaN
    ELSE IF ~IsFinite(a) THEN (IF a = b THEN NaN ELSE a)
    ELSE IF ~IsFinite(b) THEN -b
    ELSE a - b

\* a + b
Plus(a, b) == Minus(a, IF b = NaN THEN NaN ELSE -b)

\* a * b, at most one of them a logarithm
Times(a, b) ==
    IF a = NaN \/ b = NaN THEN NaN
    ELSE IF ~IsFinite(a) \/ ~IsFinite(b)
         THEN (IF a = 0 \/ b = 0 THEN NaN ELSE Sign(a) * Sign(b) * Infinity)
    ELSE a * b

\* a / b, both logarithms or b a whole number
Over(a, b) ==
    IF a = NaN \/ b = NaN THEN NaN
    ELSE IF ~IsFinite(a) THEN (IF ~IsFinite(b) THEN NaN
                               ELSE IF b < 0 THEN -a ELSE a)
    ELSE IF ~IsFinite(b) THEN 0
    ELSE IF b = 0 THEN (IF a = 0 THEN NaN ELSE Sign(a) * Infinity)
    ELSE IF b > 0 THEN RoundDiv(a, b) ELSE RoundDiv(-a, -b)

\* src/utils/audioMath.js
toLog(position, min, max) ==
    LET minv == MathLog(min)
        maxv == MathLog(max)
        scale == Over(Minus(maxv, minv), 100)
    IN MathExp(Plus(minv, Times(scale, position)))

toLinear(value, min, max) ==
    LET minv == MathLog(min)
        maxv == MathLog(max)
        scale == Over(Minus(maxv, minv), 100)
    IN Over(Minus(MathLog(value), minv), scale)

\* ---- JavaScript numbers, as far as the sweep of the sliders uses them ----
\* An angle and a sine are kept in units of 10^-4.  A slider position is a whole number
\* and half a bandwidth a whole number of half positions, so that halving is exact as
\* it is in binary floating point; a product is rounded to the nearest position.
FracUnit == 10000
\* pi in units of 10^-4
Pi == 31416

\* the alternating series x - x^3/3! + x^5/5! - ..., from the term t of degree k on
RECURSIVE SinSeries(_, _, _)
SinSeries(t, x2, k) ==
    IF k > 13 THEN 0
    ELSE LET d == FracUnit * (k + 1) * (k + 2)
             next == IF t >= 0 THEN -RoundDiv(t * x2, d) ELSE RoundDiv((-t) * x2, d)
         IN t + SinSeries(next, x2, k + 2)

\* Math.sin: the angle is brought into [-pi/2, pi/2] and the result lies in [-1, 1]
MathSin(x) ==
    LET r0 == x % (2 * Pi)
        r == IF 2 * r0 > 3 * Pi THEN r0 - 2 * Pi
             ELSE IF 2 * r0 > Pi THEN Pi - r0
             ELSE r0
    IN Max(-FracUnit, Min(FracUnit, SinSeries(r, RoundDiv(r * r, FracUnit), 1)))

\* the least angle of lo..hi whose sine is at least v
RECURSIVE AsinSearch(_, _, _)
AsinSearch(lo, hi, v) ==
    IF lo >= hi THEN hi
    ELSE LET mid == (lo + hi) \div 2
         IN IF MathSin(mid) >= v THEN AsinSearch(lo, mid, v)
            ELSE AsinSearch(mid + 1, hi, v)

\* Math.asin of v in [-1, 1]: an angle in [-pi/2, pi/2], odd in v
MathAsin(v) ==
    IF v <= 0 THEN AsinSearch(-(Pi \div 2), 0, v)
    ELSE -AsinSearch(-(Pi \div 2), 0, -v)

\* arguments given to setFrequencyRange: below the audible range, inside it, above it
Frequencies == {5, 500, 25000}

VARIABLES
    isPlaying, isReady, duration, currentTime,   \* useState
    audioContextRef,        \* TRUE once the AudioContext exists
    sourceNodeRef,          \* Null or the index in nodes of the held source
    gainNodeRef,            \* TRUE once gain, analyser and filter chain exist
    highPassFiltersRef,     \* the high-pass stages: [id, target], id the creation rank of
    lowPassFiltersRef,      \* the biquad node, target its cutoff target; same for low-pass
    biquads,                \* biquad filter nodes the context has created
    audioBufferRef,         \* Null or the index in loads of the decode that produced the buffer
    startTimeRef, pauseTimeRef,
    animationFrameRef,      \* "null", or the last requested frame id: "pending" or "stale"
    rafOther,               \* pending update callbacks whose id is not in animationFrameRef
    now,                    \* ctx.currentTime
    nodes,                  \* buffer source nodes in creation order; pos is the playhead: the
                            \* offset given to start(), advanced by the clock while playing
    loads,                  \* loadFile() activations, in call order
    currentTrack,           \* Player prop: Null or the file of the selected track
    lowSlider, highSlider,  \* Player useState: the slider positions
    lastRange,              \* the most recent setFrequencyRange(minHz, maxHz) call and
                            \* whether the filter chain existed then; <<>> before any call
    mapping,                \* the call of the mapping utility: function, arguments, outcome
    isSweepEnabled,         \* Player useState
    sweepRef,               \* Player useRef: [phase, bandwidth]
    sweepInterval,          \* TRUE while a setInterval timer of the sweep effect is live
    sweepTicks              \* callbacks the sweep timers have run so far

engineVars == <<isPlaying, isReady, duration, currentTime, audioContextRef,
                sourceNodeRef, gainNodeRef, highPassFiltersRef, lowPassFiltersRef,
                audioBufferRef, startTimeRef, pauseTimeRef, animationFrameRef,
                rafOther, now, nodes, loads, biquads>>
\* what the callers of the engine hold
sweepVars == <<isSweepEnabled, sweepRef, sweepInterval, sweepTicks>>
callerVars == <<currentTrack, lowSlider, highSlider, lastRange, mapping, sweepVars>>
vars == <<engineVars, callerVars>>

\* the engine and its browser objects as one value
Eng ==
    [isPlaying |-> isPlaying, isReady |-> isReady, duration |-> duration,
     currentTime |-> currentTime, audioContextRef |-> audioContextRef,
     sourceNodeRef |-> sourceNodeRef, gainNodeRef |-> gainNodeRef,
     highPassFiltersRef |-> highPassFiltersRef,
     lowPassFiltersRef |-> lowPassFiltersRef,
     audioBufferRef |-> audioBufferRef, startTimeRef |-> startTimeRef,
     pauseTimeRef |-> pauseTimeRef, animationFrameRef |-> animationFrameRef,
     rafOther |-> rafOther, now |-> now, nodes |-> nodes, loads |-> loads,
     biquads |-> biquads]

Commit(e) ==
    /\ isPlaying' = e.isPlaying
    /\ isReady' = e.isReady
    /\ duration' = e.duration
    /\ currentTime' = e.currentTime
    /\ audioContextRef' = e.audioContextRef
    /\ sourceNodeRef' = e.sourceNodeRef
    /\ gainNodeRef' = e.gainNodeRef
    /\ highPassFiltersRef' = e.highPassFiltersRef
    /\ lowPassFiltersRef' = e.lowPassFiltersRef
    /\ audioBufferRef' = e.audioBufferRef
    /\ startTimeRef' = e.startTimeRef
    /\ pauseTimeRef' = e.pauseTimeRef
    /\ animationFrameRef' = e.animationFrameRef
    /\ rafOther' = e.rafOther
    /\ now' = e.now
    /\ nodes' = e.nodes
    /\ loads' = e.loads
    /\ biquads' = e.biquads

\* duration of the buffer produced by load b
BufferDuration(e, b) == Duration(e.loads[b].file)

\* ---- engine functions ----

initAudioContext(e) == [e EXCEPT !.audioContextRef = TRUE]

\* createFilterChain(ctx) on a context that has created n biquad nodes so far
createFilterChain(n) ==
    [highPass |-> [i \in 1..NumStages |-> [id |-> n + i, target |-> 20]],
     lowPass |-> [i \in 1..NumStages |-> [id |-> n + NumStages + i, target |-> 20000]]]

\* source.stop() on a started node: a playing node stops and its ended event is queued
StopNode(n) ==
    IF n.status = "playing"
    THEN [n EXCEPT !.status = "stopped", !.endedPending = TRUE]
    ELSE n

\* the engine as the caller of loadFile() saw it, kept while the load is in flight
Snapshot(e) ==
    [isPlaying |-> e.isPlaying, isReady |-> e.isReady, duration |-> e.duration,
     audioBufferRef |-> e.audioBufferRef, pauseTimeRef |-> e.pauseTimeRef,
     session |-> IF e.sourceNodeRef # Null /\ e.nodes[e.sourceNodeRef].status = "playing"
                 THEN e.sourceNodeRef ELSE Null]

\* loadFile up to its first await
loadFile(e, f) ==
    LET e1 == initAudioContext(e)
        e2 == [e1 EXCEPT !.isPlaying = FALSE, !.isReady = FALSE]
        e3 == IF e2.sourceNodeRef # Null
              THEN [e2 EXCEPT !.nodes[e2.sourceNodeRef] = StopNode(@)]
              ELSE e2
    IN [e3 EXCEPT !.loads = Append(@, [file |-> f, status |-> "decoding",
                                       attempts |-> 0, result |-> "pending",
                                       prior |-> Snapshot(e)])]

\* variant: the resume offset is not reset by a successful decode
decodeResolved_KeepOffset(e, l) ==
    [e EXCEPT !.audioBufferRef = l,
              !.duration = Duration(e.loads[l].file),
              !.isReady = TRUE,
              !.loads[l].status = "ok",
              !.loads[l].attempts = @ + 1,
              !.loads[l].result = "undefined",
              !.loads[l].prior = Null]

\* loadFile after decodeAudioData fulfilled
decodeResolved(e, l) ==
    [e EXCEPT !.audioBufferRef = l,
              !.duration = Duration(e.loads[l].file),
              !.isReady = TRUE,
              !.pauseTimeRef = 0,
              !.loads[l].status = "ok",
              !.loads[l].attempts = @ + 1,
              !.loads[l].result = "undefined",
              !.loads[l].prior = Null]

\* variant: the catch also drops the held buffer
decodeRejected_DropBuffer(e, l) ==
    [e EXCEPT !.audioBufferRef = Null,
              !.loads[l].status = "failed",
              !.loads[l].attempts = @ + 1,
              !.loads[l].result = "undefined",
              !.loads[l].prior = Null]

\* loadFile after decodeAudioData rejected: the catch logs and the function returns
decodeRejected(e, l) ==
    [e EXCEPT !.loads[l].status = "failed",
              !.loads[l].attempts = @ + 1,
              !.loads[l].result = "undefined",
              !.loads[l].prior = Null]

\* the update closure of play()
update(e) ==
    IF e.sourceNodeRef = Null THEN e
    ELSE [e EXCEPT !.currentTime = Min(e.now - e.startTimeRef,
                                       BufferDuration(e, e.audioBufferRef)),
                   !.rafOther = IF e.animationFrameRef = "pending" THEN @ + 1 ELSE @,
                   !.animationFrameRef = "pending"]

\* variant: every session starts at the beginning of the buffer
play_FromStart(e, ready) ==
    IF ~ready \/ e.audioBufferRef = Null THEN e
    ELSE LET source == [buffer |-> e.audioBufferRef, pos |-> 0,
                        status |-> "playing", endedPending |-> FALSE]
             chain == createFilterChain(e.biquads)
             e1 == [e EXCEPT !.nodes = Append(@, source),
                             !.sourceNodeRef = Len(e.nodes) + 1]
             e2 == IF ~e1.gainNodeRef
                   THEN [e1 EXCEPT !.gainNodeRef = TRUE,
                                   !.highPassFiltersRef = chain.highPass,
                                   !.lowPassFiltersRef = chain.lowPass,
                                   !.biquads = @ + Len(chain.highPass) + Len(chain.lowPass)]
                   ELSE e1
             e3 == [e2 EXCEPT !.startTimeRef = e.now, !.isPlaying = TRUE]
         IN update(e3)

\* variant: the filter chain is built by every play()
play_RebuildChain(e, ready) ==
    IF ~ready \/ e.audioBufferRef = Null THEN e
    ELSE LET startOffset == e.pauseTimeRef
             atEnd == startOffset >= BufferDuration(e, e.audioBufferRef)
             source == [buffer |-> e.audioBufferRef, pos |-> startOffset,
                        status |-> IF atEnd THEN "finished" ELSE "playing",
                        endedPending |-> atEnd]
             chain == createFilterChain(e.biquads)
             e1 == [e EXCEPT !.nodes = Append(@, source),
                             !.sourceNodeRef = Len(e.nodes) + 1]
             e2 == [e1 EXCEPT !.gainNodeRef = TRUE,
                              !.highPassFiltersRef = chain.highPass,
                              !.lowPassFiltersRef = chain.lowPass,
                              !.biquads = @ + Len(chain.highPass) + Len(chain.lowPass)]
             e3 == [e2 EXCEPT !.startTimeRef = e.now - startOffset,
                              !.isPlaying = TRUE]
         IN update(e3)

\* play() as created by a render whose isReady was `ready`
play(e, ready) ==
    IF ~ready \/ e.audioBufferRef = Null THEN e
    ELSE LET startOffset == e.pauseTimeRef
             atEnd == startOffset >= BufferDuration(e, e.audioBufferRef)
             source == [buffer |-> e.audioBufferRef, pos |-> startOffset,
                        status |-> IF atEnd THEN "finished" ELSE "playing",
                        endedPending |-> atEnd]
             chain == createFilterChain(e.biquads)
             e1 == [e EXCEPT !.nodes = Append(@, source),
                             !.sourceNodeRef = Len(e.nodes) + 1]
             e2 == IF ~e1.gainNodeRef
                   THEN [e1 EXCEPT !.gainNodeRef = TRUE,
                                   !.highPassFiltersRef = chain.highPass,
                                   !.lowPassFiltersRef = chain.lowPass,
                                   !.biquads = @ + Len(chain.highPass) + Len(chain.lowPass)]
                   ELSE e1
             e3 == [e2 EXCEPT !.startTimeRef = e.now - startOffset,
                              !.isPlaying = TRUE]
         IN update(e3)

\* variant: the resume offset is the clock reading, not the time since the session began
pause_AbsoluteClock(e) ==
    IF e.sourceNodeRef = Null THEN e
    ELSE [e EXCEPT !.nodes[e.sourceNodeRef] = StopNode(@),
                   !.sourceNodeRef = Null,
                   !.pauseTimeRef = e.now,
                   !.isPlaying = FALSE,
                   !.animationFrameRef = IF @ = "pending" THEN "stale" ELSE @]

pause(e) ==
    IF e.sourceNodeRef = Null THEN e
    ELSE [e EXCEPT !.nodes[e.sourceNodeRef] = StopNode(@),
                   !.sourceNodeRef = Null,
                   !.pauseTimeRef = e.now - e.startTimeRef,
                   !.isPlaying = FALSE,
                   !.animationFrameRef = IF @ = "pending" THEN "stale" ELSE @]

\* variant: the end of the stream rewinds the reported time
onended_ResetTime(e) == [e EXCEPT !.isPlaying = FALSE, !.currentTime = 0]

\* variant: the end of the stream rewinds the resume offset
onended_ResetOffset(e) == [e EXCEPT !.isPlaying = FALSE, !.pauseTimeRef = 0]

\* source.onended
onended(e) == [e EXCEPT !.isPlaying = FALSE]

\* node.frequency.setTargetAtTime(hz, now, 0.05) on every stage of one side
SetTarget(stages, hz) ==
    [i \in 1..Len(stages) |-> [stages[i] EXCEPT !.target = hz]]

\* variant: only the first stage of each side is retargeted
setFrequencyRange_FirstStageOnly(e, minHz, maxHz) ==
    IF ~e.audioContextRef \/ e.highPassFiltersRef = <<>> THEN e
    ELSE [e EXCEPT !.highPassFiltersRef[1].target = Max(20, minHz),
                   !.lowPassFiltersRef[1].target = Min(20000, maxHz)]

\* variant: the arguments are applied as given
setFrequencyRange_NoClamp(e, minHz, maxHz) ==
    IF ~e.audioContextRef THEN e
    ELSE [e EXCEPT !.highPassFiltersRef = SetTarget(@, minHz),
                   !.lowPassFiltersRef = SetTarget(@, maxHz)]

\* variant: a call that finds no chain builds one and tunes it
setFrequencyRange_BuildsChain(e, minHz, maxHz) ==
    IF ~e.audioContextRef THEN e
    ELSE LET chain == createFilterChain(e.biquads)
             e1 == IF e.highPassFiltersRef = <<>>
                   THEN [e EXCEPT !.highPassFiltersRef = chain.highPass,
                                  !.lowPassFiltersRef = chain.lowPass,
                                  !.biquads = @ + Len(chain.highPass) + Len(chain.lowPass)]
                   ELSE e
         IN [e1 EXCEPT !.highPassFiltersRef = SetTarget(@, Max(20, minHz)),
                       !.lowPassFiltersRef = SetTarget(@, Min(20000, maxHz))]

\* variant: retuning halts the transport
setFrequencyRange_HaltsTransport(e, minHz, maxHz) ==
    IF ~e.audioContextRef THEN e
    ELSE [e EXCEPT !.highPassFiltersRef = SetTarget(@, Max(20, minHz)),
                   !.lowPassFiltersRef = SetTarget(@, Min(20000, maxHz)),
                   !.isPlaying = FALSE]

\* variant: a call that finds the band already moved is dropped
setFrequencyRange_FirstCallWins(e, minHz, maxHz) ==
    IF ~e.audioContextRef THEN e
    ELSE IF \E i \in 1..Len(e.highPassFiltersRef) :
                \/ e.highPassFiltersRef[i].target # 20
                \/ e.lowPassFiltersRef[i].target # 20000
         THEN e
    ELSE [e EXCEPT !.highPassFiltersRef = SetTarget(@, Max(20, minHz)),
                   !.lowPassFiltersRef = SetTarget(@, Min(20000, maxHz))]

setFrequencyRange(e, minHz, maxHz) ==
    IF ~e.audioContextRef THEN e
    ELSE [e EXCEPT !.highPassFiltersRef = SetTarget(@, Max(20, minHz)),
                   !.lowPassFiltersRef = SetTarget(@, Min(20000, maxHz))]

\* no call of the mapping utility has been made
NoCall == [fn |-> "none", arg |-> 0, min |-> 0, max |-> 0, outcome |-> "none", value |-> 0]

\* ---- initial state ----
Init ==
    /\ isPlaying = FALSE /\ isReady = FALSE /\ duration = 0 /\ currentTime = 0
    /\ audioContextRef = FALSE
    /\ sourceNodeRef = Null
    /\ gainNodeRef = FALSE
    /\ highPassFiltersRef = <<>> /\ lowPassFiltersRef = <<>>
    /\ audioBufferRef = Null
    /\ startTimeRef = 0 /\ pauseTimeRef = 0
    /\ animationFrameRef = "null" /\ rafOther = 0
    /\ now = 0
    /\ nodes = <<>> /\ loads = <<>>
    /\ biquads = 0
    /\ currentTrack = Null
    /\ lowSlider = 0 /\ highSlider = 100
    /\ lastRange = <<>>
    /\ mapping = NoCall
    /\ isSweepEnabled = FALSE
    /\ sweepRef = [phase |-> 0, bandwidth |-> 100]
    /\ sweepInterval = FALSE /\ sweepTicks = 0

\* ---- browser steps shared by both specifications ----

\* the audio clock advances; a playing node that reaches the end of its buffer finishes
\* and its ended event is queued
Tick ==
    /\ audioContextRef
    /\ now < MaxTime
    /\ LET advance(n) ==
               IF n.status # "playing" THEN n
               ELSE IF n.pos + 1 >= Duration(loads[n.buffer].file)
                    THEN [n EXCEPT !.pos = @ + 1, !.status = "finished",
                                   !.endedPending = TRUE]
                    ELSE [n EXCEPT !.pos = @ + 1]
       IN Commit([Eng EXCEPT !.now = now + 1,
                             !.nodes = [i \in 1..Len(nodes) |-> advance(nodes[i])]])
    /\ UNCHANGED callerVars

\* the ended event of node i is dispatched
Ended(i) ==
    /\ nodes[i].endedPending
    /\ Commit(onended([Eng EXCEPT !.nodes[i].endedPending = FALSE]))
    /\ UNCHANGED callerVars

RECURSIVE RunCallbacks(_, _)
RunCallbacks(e, k) == IF k = 0 THEN e ELSE RunCallbacks(update(e), k - 1)

\* one animation frame: every pending update callback runs
AnimationFrame ==
    LET k == rafOther + (IF animationFrameRef = "pending" THEN 1 ELSE 0)
        e0 == [Eng EXCEPT !.rafOther = 0,
                          !.animationFrameRef = IF @ = "pending" THEN "stale" ELSE @]
    IN /\ k > 0
       /\ Commit(RunCallbacks(e0, k))
       /\ UNCHANGED callerVars

\* loadFile() activations and buffer source nodes so far
Calls == Len(loads) + Len(nodes)

\* ---- the engine called directly, each call through the latest render ----

LoadFile(f) ==
    /\ Calls < MaxCalls
    /\ Commit(loadFile(Eng, f))
    /\ UNCHANGED callerVars

DecodeResolve(l) ==
    /\ loads[l].status = "decoding"
    /\ ~Corrupt(loads[l].file)
    /\ Commit(decodeResolved(Eng, l))
    /\ UNCHANGED callerVars

DecodeReject(l) ==
    /\ loads[l].status = "decoding"
    /\ Corrupt(loads[l].file)
    /\ Commit(decodeRejected(Eng, l))
    /\ UNCHANGED callerVars

Play ==
    /\ Calls < MaxCalls
    /\ Commit(play(Eng, isReady))
    /\ UNCHANGED callerVars

Pause ==
    /\ Commit(pause(Eng))
    /\ UNCHANGED callerVars

Next ==
    \/ \E f \in Files : LoadFile(f)
    \/ \E l \in 1..Len(loads) : DecodeResolve(l)
    \/ \E l \in 1..Len(loads) : DecodeReject(l)
    \/ Play
    \/ Pause
    \/ Tick
    \/ \E i \in 1..Len(nodes) : Ended(i)
    \/ AnimationFrame

Spec == Init /\ [][Next]_vars

\* ---- the engine with its filter control, the audio clock standing still ----
\* setFrequencyRange reads audioContextRef and the two stage lists and writes the stage
\* targets only, so the band is explored apart from the passage of time.

SetFrequencyRange(minHz, maxHz) ==
    /\ lastRange' = <<[minHz |-> minHz, maxHz |-> maxHz,
                       built |-> highPassFiltersRef # <<>>]>>
    /\ Commit(setFrequencyRange(Eng, minHz, maxHz))
    /\ UNCHANGED <<currentTrack, lowSlider, highSlider, mapping, sweepVars>>

FilterNext ==
    \/ \E f \in Files : LoadFile(f)
    \/ \E l \in 1..Len(loads) : DecodeResolve(l)
    \/ \E l \in 1..Len(loads) : DecodeReject(l)
    \/ Play
    \/ Pause
    \/ \E i \in 1..Len(nodes) : Ended(i)
    \/ AnimationFrame
    \/ \E minHz \in Frequencies, maxHz \in Frequencies : SetFrequencyRange(minHz, maxHz)

FilterSpec == Init /\ [][FilterNext]_vars

\* ---- the mapping utility called on its own ----

\* slider positions, and the frequencies they map to over the audible range
Positions == {0, 25, 50, 75, 100}
Values == {toLog(p, 20, 20000) : p \in Positions}
\* range arguments: negative, zero, the audible limits
RangeMins == {-5, 0, 20, 20000}
RangeMaxs == {0, 20, 20000}

\* neither function has a throw or a check of its arguments: a call returns what the
\* arithmetic gives
ToLog(position, min, max) ==
    /\ mapping' = [fn |-> "toLog", arg |-> position, min |-> min, max |-> max,
                   outcome |-> "returned", value |-> toLog(position, min, max)]
    /\ UNCHANGED <<engineVars, currentTrack, lowSlider, highSlider, lastRange, sweepVars>>

ToLinear(value, min, max) ==
    /\ mapping' = [fn |-> "toLinear", arg |-> value, min |-> min, max |-> max,
                   outcome |-> "returned", value |-> toLinear(value, min, max)]
    /\ UNCHANGED <<engineVars, currentTrack, lowSlider, highSlider, lastRange, sweepVars>>

MappingNext ==
    \/ \E position \in Positions, min \in RangeMins, max \in RangeMaxs :
           ToLog(position, min, max)
    \/ \E value \in Values, min \in RangeMins, max \in RangeMaxs :
           ToLinear(value, min, max)

MappingSpec == Init /\ [][MappingNext]_vars

\* ---- the engine driven by the Player component ----

\* the auto-play effect of a render that captured isReady = ready, isPlaying = playing
\* and currentTrack = track
autoPlayEffect(e, ready, playing, track) ==
    IF ready /\ ~playing /\ track # Null THEN play(e, ready) ELSE e

\* App.handleTrackSelect / handleNext / handlePrev give the Player a new currentTrack.
\* The render that follows still holds the isReady and isPlaying of the state before
\* the effects ran: the loadTrack effect calls loadFile(), then the auto-play effect
\* runs because currentTrack changed.
SelectTrack(t) ==
    /\ t # currentTrack
    /\ Calls + 1 < MaxCalls
    /\ currentTrack' = t
    /\ Commit(autoPlayEffect(loadFile(Eng, t), isReady, isPlaying, t))
    /\ UNCHANGED <<lowSlider, highSlider, lastRange, mapping, sweepVars>>

\* the file input, rendered only while no track is selected
handleFileChange(f) ==
    /\ currentTrack = Null
    /\ Calls < MaxCalls
    /\ Commit(loadFile(Eng, f))
    /\ UNCHANGED callerVars

\* decode success, the commit of isReady = true and the auto-play effect, which runs
\* when isReady differs from the previous render's
PlayerDecodeResolve(l) ==
    /\ loads[l].status = "decoding"
    /\ ~Corrupt(loads[l].file)
    /\ LET e1 == decodeResolved(Eng, l)
           e2 == IF ~isReady
                 THEN autoPlayEffect(e1, e1.isReady, e1.isPlaying, currentTrack)
                 ELSE e1
       IN /\ Len(e2.loads) + Len(e2.nodes) <= MaxCalls
          /\ Commit(e2)
    /\ UNCHANGED callerVars

\* the transport button: disabled unless isReady, onClick = isPlaying ? pause : play
ClickPlay ==
    /\ isReady /\ ~isPlaying
    /\ Calls < MaxCalls
    /\ Commit(play(Eng, isReady))
    /\ UNCHANGED callerVars

ClickPause ==
    /\ isReady /\ isPlaying
    /\ Commit(pause(Eng))
    /\ UNCHANGED callerVars

MIN_FREQ == 20
MAX_FREQ == 20000

\* toLog(position, MIN_FREQ, MAX_FREQ) of every slider position, evaluated once
sliderHz == [position \in 0..100 |-> toLog(position, MIN_FREQ, MAX_FREQ)]

\* variant: the slider is moved whatever the other slider's frequency
handleRangeChange_NoOrderCheck(p, type, val) ==
    IF type = "low"
    THEN [lowSlider |-> val, highSlider |-> p.highSlider,
          call |-> <<[minHz |-> sliderHz[val],
                      maxHz |-> sliderHz[p.highSlider]]>>]
    ELSE [lowSlider |-> p.lowSlider, highSlider |-> val,
          call |-> <<[minHz |-> sliderHz[p.lowSlider],
                      maxHz |-> sliderHz[val]]>>]

\* handleRangeChange in a render whose sliders are p: the sliders after it and the
\* setFrequencyRange call it makes, if any
handleRangeChange(p, type, val) ==
    IF type = "low"
    THEN LET potentialLowHz == sliderHz[val]
             currentHighHz == sliderHz[p.highSlider]
         IN IF potentialLowHz < currentHighHz
            THEN [lowSlider |-> val, highSlider |-> p.highSlider,
                  call |-> <<[minHz |-> potentialLowHz, maxHz |-> currentHighHz]>>]
            ELSE [lowSlider |-> p.lowSlider, highSlider |-> p.highSlider, call |-> <<>>]
    ELSE LET potentialHighHz == sliderHz[val]
             currentLowHz == sliderHz[p.lowSlider]
         IN IF potentialHighHz > currentLowHz
            THEN [lowSlider |-> p.lowSlider, highSlider |-> val,
                  call |-> <<[minHz |-> currentLowHz, maxHz |-> potentialHighHz]>>]
            ELSE [lowSlider |-> p.lowSlider, highSlider |-> p.highSlider, call |-> <<>>]

\* an input event of one of the two sliders
HandleRangeChange(type, val) ==
    \E r \in {handleRangeChange([lowSlider |-> lowSlider, highSlider |-> highSlider],
                                type, val)} :
       /\ lowSlider' = r.lowSlider
       /\ highSlider' = r.highSlider
       /\ IF r.call = <<>>
          THEN UNCHANGED <<engineVars, lastRange>>
          ELSE /\ Commit(setFrequencyRange(Eng, r.call[1].minHz, r.call[1].maxHz))
               /\ lastRange' = <<[minHz |-> r.call[1].minHz, maxHz |-> r.call[1].maxHz,
                                  built |-> highPassFiltersRef # <<>>]>>
       \* a manual move disables the sweep; the cleanup of its effect clears the timer
       /\ isSweepEnabled' = FALSE
       /\ sweepInterval' = FALSE
       /\ UNCHANGED <<currentTrack, mapping, sweepRef, sweepTicks>>

\* ---- the sweep of the sliders ----

\* the phase advance of one timer callback, 0.005
PhaseStep == 50

\* the sweep effect of a render whose sliders are p and whose isSweepEnabled is true:
\* what it stores in sweepRef before it starts the timer
sweepEffect(p) ==
    LET currentCenter == p.lowSlider + p.highSlider      \* in half positions
    IN [bandwidth |-> p.highSlider - p.lowSlider,
        phase |-> MathAsin((currentCenter * FracUnit) \div 100 - FracUnit)]

\* variant: the centre sweeps the whole track of the slider, whatever the bandwidth
sweepTick_FullRange(sweep) ==
    LET phase == sweep.phase + PhaseStep
        halfBW == sweep.bandwidth
        range == 100
        centerFactor == MathSin(phase) + FracUnit
        center == halfBW + 2 * RoundDiv(centerFactor * range, 2 * FracUnit)
        newLow == (center - halfBW) \div 2
        newHigh == (center + halfBW) \div 2
    IN [sweepRef |-> [sweep EXCEPT !.phase = phase],
        lowSlider |-> newLow, highSlider |-> newHigh,
        call |-> [minHz |-> toLog(newLow, MIN_FREQ, MAX_FREQ),
                  maxHz |-> toLog(newHigh, MIN_FREQ, MAX_FREQ)]]

\* one callback of the timer: the new sweepRef, the slider positions it sets and the
\* setFrequencyRange call it makes
sweepTick(sweep) ==
    LET phase == sweep.phase + PhaseStep
        halfBW == sweep.bandwidth                        \* in half positions
        range == 100 - sweep.bandwidth
        centerFactor == MathSin(phase) + FracUnit        \* sin + 1, halved in the product
        center == halfBW + 2 * RoundDiv(centerFactor * range, 2 * FracUnit)
        newLow == (center - halfBW) \div 2
        newHigh == (center + halfBW) \div 2
    IN [sweepRef |-> [sweep EXCEPT !.phase = phase],
        lowSlider |-> newLow, highSlider |-> newHigh,
        call |-> [minHz |-> toLog(newLow, MIN_FREQ, MAX_FREQ),
                  maxHz |-> toLog(newHigh, MIN_FREQ, MAX_FREQ)]]

\* the sweep button, disabled unless isReady: it toggles isSweepEnabled; the commit runs
\* the cleanup of the sweep effect (clearInterval) and then the effect
ToggleSweep ==
    /\ isReady
    /\ isSweepEnabled' = ~isSweepEnabled
    /\ IF ~isSweepEnabled
       THEN /\ sweepRef' = sweepEffect([lowSlider |-> lowSlider, highSlider |-> highSlider])
            /\ sweepInterval' = TRUE
       ELSE /\ sweepInterval' = FALSE
            /\ UNCHANGED sweepRef
    /\ UNCHANGED <<engineVars, currentTrack, lowSlider, highSlider, lastRange, mapping,
                   sweepTicks>>

\* the timer fires: only a live timer does
SweepTick ==
    /\ sweepInterval
    /\ sweepTicks < MaxSweepTicks
    /\ sweepTicks' = sweepTicks + 1
    /\ \E r \in {sweepTick(sweepRef)} :
          /\ sweepRef' = r.sweepRef
          /\ lowSlider' = r.lowSlider
          /\ highSlider' = r.highSlider
          /\ lastRange' = <<[minHz |-> r.call.minHz, maxHz |-> r.call.maxHz,
                             built |-> highPassFiltersRef # <<>>]>>
          /\ Commit(setFrequencyRange(Eng, r.call.minHz, r.call.maxHz))
    /\ UNCHANGED <<currentTrack, mapping, isSweepEnabled, sweepInterval>>

PlayerNext ==
    \/ \E t \in Files : SelectTrack(t)
    \/ \E f \in Files : handleFileChange(f)
    \/ \E l \in 1..Len(loads) : PlayerDecodeResolve(l)
    \/ \E l \in 1..Len(loads) : DecodeReject(l)
    \/ ClickPlay
    \/ ClickPause
    \/ Tick
    \/ \E i \in 1..Len(nodes) : Ended(i)
    \/ AnimationFrame

PlayerSpec == Init /\ [][PlayerNext]_vars

\* ---- the Player with its sliders, the audio clock standing still ----
\* handleRangeChange reads the two slider positions and calls setFrequencyRange, which
\* reads and writes nothing the clock moves.

SliderNext ==
    \/ \E t \in Files : SelectTrack(t)
    \/ \E f \in Files : handleFileChange(f)
    \/ \E l \in 1..Len(loads) : PlayerDecodeResolve(l)
    \/ \E l \in 1..Len(loads) : DecodeReject(l)
    \/ ClickPlay
    \/ ClickPause
    \/ \E i \in 1..Len(nodes) : Ended(i)
    \/ AnimationFrame
    \/ \E type \in {"low", "high"}, val \in Positions : HandleRangeChange(type, val)

SliderSpec == Init /\ [][SliderNext]_vars

\* ---- the Player with its sliders and their sweep, the audio clock standing still ----
\* The sweep reads isReady (its button is disabled without it) and the sliders, and the
\* engine sees it through setFrequencyRange only, so it is explored with one file
\* picked, decoded or not, and played.

SweepNext ==
    \/ \E f \in Files : loads = <<>> /\ handleFileChange(f)
    \/ \E l \in 1..Len(loads) : PlayerDecodeResolve(l)
    \/ \E l \in 1..Len(loads) : DecodeReject(l)
    \/ ClickPlay
    \/ \E type \in {"low", "high"}, val \in Positions : HandleRangeChange(type, val)
    \/ ToggleSweep
    \/ SweepTick

SweepSpec == Init /\ [][SweepNext]_vars

\* ---- shape of the state ----
TypeOK ==
    /\ isPlaying \in BOOLEAN /\ isReady \in BOOLEAN
    /\ duration \in 0..(NumFiles + 1)
    /\ currentTime \in 0..(NumFiles + 1)
    /\ audioContextRef \in BOOLEAN /\ gainNodeRef \in BOOLEAN
    /\ sourceNodeRef \in 0..Len(nodes)
    /\ audioBufferRef \in 0..Len(loads)
    /\ startTimeRef \in Int /\ pauseTimeRef \in Int
    /\ animationFrameRef \in {"null", "pending", "stale"}
    /\ rafOther \in 0..MaxCalls
    /\ now \in 0..MaxTime
    /\ Calls <= MaxCalls
    /\ biquads \in Nat
    /\ Len(highPassFiltersRef) <= NumStages /\ Len(lowPassFiltersRef) <= NumStages
    /\ currentTrack \in {Null} \cup Files
    /\ lowSlider \in 0..100 /\ highSlider \in 0..100
    /\ Len(lastRange) <= 1
    /\ mapping.fn \in {"none", "toLog", "toLinear"}
    /\ isSweepEnabled \in BOOLEAN /\ sweepInterval \in BOOLEAN
    /\ sweepRef.bandwidth \in 0..100 /\ sweepRef.phase \in Int
    /\ sweepTicks \in 0..MaxSweepTicks

\* ---- vocabulary of the properties ----
Active(n) == n.status = "playing"
ActiveNodes == {i \in 1..Len(nodes) : Active(nodes[i])}
InFlight == \E l \in 1..Len(loads) : loads[l].status = "decoding"
HeldActive == sourceNodeRef # Null /\ Active(nodes[sourceNodeRef])
\* buffer position of the held node
HeldPos == nodes[sourceNodeRef].pos
\* the held node played to the end of its buffer
HeldFinished == sourceNodeRef # Null /\ nodes[sourceNodeRef].status = "finished"
\* identities and targets of a list of stages
Ids(stages) == [i \in 1..Len(stages) |-> stages[i].id]
Targets(stages) == {stages[i].target : i \in 1..Len(stages)}
ChainBuilt == highPassFiltersRef # <<>>

\* ---- properties ----

\* C1: at most one Playback Session (a started node that was neither stopped nor
\* has ended) exists in every reachable state of the engine.
C1_AtMostOneSession == Cardinality(ActiveNodes) <= 1

\* C2: play() while the engine is already Playing creates no session and leaves the
\* held session reference and the start reference unchanged; play() with no buffer
\* loaded creates no session.
C2_PlayIgnoredWhenPlaying ==
    [][Play =>
         /\ (isPlaying => UNCHANGED <<nodes, sourceNodeRef, startTimeRef>>)
         /\ (audioBufferRef = Null => nodes' = nodes)]_vars

\* C3: no step starts a Playback Session while a loadFile() whose decode has not
\* resolved is outstanding, the auto-play effect of the Player included.
C3_NoSessionStartedBeforeDecode ==
    [][InFlight' => Len(nodes') = Len(nodes)]_vars

\* C4: loadFile() stops the held session before decoding starts, so no session is
\* active while a decode is in flight.
C4_NoSessionWhileDecoding == InFlight => ActiveNodes = {}

\* C5: a successful decode leaves isReady true, the published duration and the held
\* buffer those of the newly decoded file, and the resume offset 0.
C5_DecodeSuccessReady ==
    [][\A l \in 1..Len(loads) :
         DecodeResolve(l) =>
             /\ isReady'
             /\ duration' = Duration(loads[l].file)
             /\ audioBufferRef' = l
             /\ pauseTimeRef' = 0]_vars

\* C5 witness: a second load has decoded after a session of the first was stopped at a
\* positive position; the engine is ready on the new buffer with resume offset 0.
C5_Witness ==
    /\ Len(loads) >= 2 /\ loads[1].status = "ok" /\ loads[2].status = "ok"
    /\ Len(nodes) >= 1 /\ nodes[1].status = "stopped" /\ nodes[1].pos > 0
    /\ isReady /\ audioBufferRef = 2 /\ duration = Duration(loads[2].file)
    /\ pauseTimeRef = 0

\* C6: once a load has failed, isReady is false until a loadFile() called later than
\* the failed one has succeeded.
C6_FailedLoadNotReady ==
    \A l \in 1..Len(loads) :
        (loads[l].status = "failed" /\ isReady) =>
            \E m \in (l + 1)..Len(loads) : loads[m].status = "ok"

\* C7 as stated: after a decode failure the engine is in the state it had before the
\* failing loadFile() was called.
C7_PriorStateRestored ==
    [][\A l \in 1..Len(loads) :
         DecodeReject(l) =>
             LET p == loads[l].prior
             IN /\ isPlaying' = p.isPlaying
                /\ isReady' = p.isReady
                /\ duration' = p.duration
                /\ audioBufferRef' = p.audioBufferRef
                /\ pauseTimeRef' = p.pauseTimeRef
                /\ (IF HeldActive' THEN sourceNodeRef' ELSE Null) = p.session]_vars

\* C7 amended: the failure itself changes nothing of the engine, and what loadFile()
\* did when it was called (isPlaying and isReady false, held session stopped; duration,
\* buffer and resume offset untouched) is not undone.
C7_FailureChangesNothing ==
    [][/\ (\E l \in 1..Len(loads) : DecodeReject(l)) =>
            UNCHANGED <<isPlaying, isReady, duration, currentTime, audioBufferRef,
                        pauseTimeRef, startTimeRef, sourceNodeRef, nodes>>
       /\ (Len(loads') > Len(loads) /\ \E f \in Files : LoadFile(f)) =>
            /\ ~isPlaying' /\ ~isReady' /\ ~HeldActive'
            /\ UNCHANGED <<duration, audioBufferRef, pauseTimeRef>>]_vars

\* C7 witness: a load called after a successful one has failed; the first buffer is
\* still held and the engine is no longer ready.
C7_Witness ==
    /\ Len(loads) >= 2 /\ loads[1].status = "ok" /\ loads[2].status = "failed"
    /\ audioBufferRef = 1 /\ duration = Duration(loads[1].file)
    /\ ~isReady /\ ~isPlaying

\* C8: the promise of a loadFile() whose decode failed settles with a DecodeError,
\* and every loadFile() makes one decode attempt.
C8_FailureSurfaced ==
    \A l \in 1..Len(loads) :
        /\ loads[l].attempts <= 1
        /\ loads[l].status = "failed" => loads[l].result = "DecodeError"

\* C9: pause() outside Playing leaves the resume offset, isPlaying, the session
\* reference and currentTime unchanged.
C9_PauseNoOpOutsidePlaying ==
    [][(~isPlaying /\ Pause) =>
         UNCHANGED <<pauseTimeRef, isPlaying, sourceNodeRef, currentTime>>]_vars

\* C10: pause() from Playing stores the buffer position of the held session as the
\* resume offset, and play() starts the new session at the resume offset, with the
\* start reference and the reported time continuing from it.
C10_ResumeOffsetPreserved ==
    [][/\ (isPlaying /\ HeldActive /\ Pause) =>
            pauseTimeRef' = HeldPos
       /\ (Len(nodes') > Len(nodes) /\ Play) =>
            /\ nodes'[sourceNodeRef'].pos = pauseTimeRef
            /\ nodes'[sourceNodeRef'].buffer = audioBufferRef
            /\ startTimeRef' = now - pauseTimeRef
            /\ pauseTimeRef' = pauseTimeRef
            /\ (pauseTimeRef <= Duration(loads[audioBufferRef].file) =>
                    currentTime' = pauseTimeRef)]_vars

\* C10 witness: the first session was paused at a positive position and the second
\* has started there, reporting that position.
C10_Witness ==
    /\ Len(nodes) >= 2 /\ sourceNodeRef = 2
    /\ nodes[1].status = "stopped" /\ nodes[1].pos > 0
    /\ HeldActive
    /\ HeldPos = nodes[1].pos /\ pauseTimeRef = HeldPos
    /\ startTimeRef = now - pauseTimeRef
    /\ currentTime = pauseTimeRef

\* C11: play() with resume offset 0 (as a successful load leaves it) reports currentTime 0
\* and starts the session at position 0; pause() while that session is still at position
\* 0, the clock not having advanced since, leaves currentTime 0 and the resume offset 0.
C11_ImmediatePauseKeepsZero ==
    [][/\ (pauseTimeRef = 0 /\ Len(nodes') > Len(nodes) /\ Play) =>
            /\ currentTime' = 0
            /\ nodes'[sourceNodeRef'].pos = 0
       /\ (HeldActive /\ HeldPos = 0 /\ Pause) =>
            /\ currentTime' = 0
            /\ pauseTimeRef' = 0]_vars

\* C11 witness: with the clock past 0, a session of the loaded buffer was started and
\* paused at position 0; currentTime and the resume offset are 0.
C11_Witness ==
    /\ now > 0 /\ startTimeRef = now
    /\ audioBufferRef # Null /\ isReady
    /\ Len(nodes) = 1 /\ nodes[1].status = "stopped" /\ nodes[1].pos = 0
    /\ sourceNodeRef = Null /\ ~isPlaying
    /\ currentTime = 0 /\ pauseTimeRef = 0

\* C12: in every reachable state 0 <= currentTime <= duration, the duration being that
\* of the track published last.
C12_ElapsedWithinDuration == 0 <= currentTime /\ currentTime <= duration

C14_EndKeepsResumeOffset ==
    [][/\ \A i \in 1..Len(nodes) :
            (nodes[i].status = "finished" /\ Ended(i)) => pauseTimeRef' = pauseTimeRef
       /\ (pauseTimeRef' # pauseTimeRef) =>
            (Pause \/ \E l \in 1..Len(loads) : DecodeResolve(l))
       /\ (HeldFinished /\ Len(nodes') > Len(nodes) /\ Play) =>
            nodes'[sourceNodeRef'].pos = pauseTimeRef]_vars

\* C14 witness: the first session played to its end and its notification was delivered;
\* the second session is playing from the resume offset, which no pause() has set.
C14_Witness ==
    /\ Len(nodes) = 2 /\ sourceNodeRef = 2
    /\ nodes[1].status = "finished" /\ ~nodes[1].endedPending /\ nodes[1].pos > 0
    /\ nodes[2].status = "playing" /\ nodes[2].pos = pauseTimeRef
    /\ pauseTimeRef = 0 /\ isPlaying

\* C15: an animation frame that arrives while the engine is not Playing publishes no
\* position and schedules no further frame.
C15_NoUpdateOutsidePlaying ==
    [][(~isPlaying /\ AnimationFrame) =>
         /\ currentTime' = currentTime
         /\ animationFrameRef' # "pending"
         /\ rafOther' = 0]_vars

\* C16: after pause(), after loadFile() and after the ended notification of the held
\* session that played to its end, the engine holds no session.
C16_SessionReleased ==
    [][/\ (Len(loads') > Len(loads)) => sourceNodeRef' = Null
       /\ Pause => sourceNodeRef' = Null
       /\ \A i \in 1..Len(nodes) :
            (i = sourceNodeRef /\ nodes[i].status = "finished" /\ Ended(i)) =>
                sourceNodeRef' = Null]_vars

\* C17: before the first session is created there are no stages; from the first
\* session on, whatever play, pause, loadFile and setFrequencyRange follow, the chain is
\* the first NumStages biquad nodes the context created as high-pass stages and the
\* next NumStages as low-pass stages, in creation order, and no other biquad node was
\* ever created.
C17_ChainBuiltOnce ==
    /\ Len(nodes) = 0 =>
          /\ highPassFiltersRef = <<>> /\ lowPassFiltersRef = <<>>
          /\ biquads = 0
    /\ Len(nodes) > 0 =>
          /\ Ids(highPassFiltersRef) = [i \in 1..NumStages |-> i]
          /\ Ids(lowPassFiltersRef) = [i \in 1..NumStages |-> NumStages + i]
          /\ biquads = 2 * NumStages

\* C17 witness: a second session runs through the chain built for the first, after the
\* band was changed.
C17_Witness ==
    /\ Len(nodes) = 2 /\ HeldActive
    /\ Targets(highPassFiltersRef) = {500}
    /\ biquads = 2 * NumStages

\* C18: the stages of one side always share one target; the chain is built with targets
\* 20 and 20000; and the targets of a built chain change only in a setFrequencyRange
\* step.
C18_StagesShareTarget ==
    [][/\ Cardinality(Targets(highPassFiltersRef')) <= 1
       /\ Cardinality(Targets(lowPassFiltersRef')) <= 1
       /\ (~ChainBuilt /\ ChainBuilt') =>
            /\ Targets(highPassFiltersRef') = {20}
            /\ Targets(lowPassFiltersRef') = {20000}
       /\ (/\ ChainBuilt
           /\ \/ highPassFiltersRef' # highPassFiltersRef
              \/ lowPassFiltersRef' # lowPassFiltersRef) =>
            \E minHz \in Frequencies, maxHz \in Frequencies :
                /\ SetFrequencyRange(minHz, maxHz)
                /\ Targets(highPassFiltersRef') = {Max(20, minHz)}
                /\ Targets(lowPassFiltersRef') = {Min(20000, maxHz)}]_vars

\* C18 witness: all four stages of each side carry the target of the last call.
C18_Witness ==
    /\ Len(highPassFiltersRef) = NumStages /\ Len(lowPassFiltersRef) = NumStages
    /\ \A i \in 1..NumStages :
          /\ highPassFiltersRef[i].target = 500
          /\ lowPassFiltersRef[i].target = 500

\* C19: a setFrequencyRange step on a built chain leaves every high-pass target at
\* least 20 and every low-pass target at most 20000; setFrequencyRange(5, 25000) leaves
\* them 20 and 20000.
C19_TargetsClamped ==
    [][\A minHz \in Frequencies, maxHz \in Frequencies :
         (ChainBuilt /\ SetFrequencyRange(minHz, maxHz)) =>
             /\ \A t \in Targets(highPassFiltersRef') : t >= 20
             /\ \A t \in Targets(lowPassFiltersRef') : t <= 20000
             /\ (minHz = 5 /\ maxHz = 25000) =>
                    /\ Targets(highPassFiltersRef') = {20}
                    /\ Targets(lowPassFiltersRef') = {20000}]_vars

\* C19 witness: a call with minHz below 20 was applied: the low-pass target was moved
\* and the high-pass target is the floor.
C19_Witness ==
    /\ ChainBuilt
    /\ Targets(highPassFiltersRef) = {20}
    /\ Targets(lowPassFiltersRef) = {500}

\* C20: the targets of a built chain always satisfy
\* 20 <= high-pass target < low-pass target <= 20000.
C20_BandNeverInverted ==
    ChainBuilt =>
        \A lo \in Targets(highPassFiltersRef), hi \in Targets(lowPassFiltersRef) :
            /\ 20 <= lo
            /\ lo < hi
            /\ hi <= 20000

\* C21: a setFrequencyRange step that finds no chain, with or without an audio context,
\* changes nothing of the engine; and the step that builds the chain builds it with
\* targets 20 and 20000 whatever was requested before.
C21_NoChainNoEffect ==
    [][/\ \A minHz \in Frequencies, maxHz \in Frequencies :
            (~ChainBuilt /\ SetFrequencyRange(minHz, maxHz)) => UNCHANGED engineVars
       /\ (~ChainBuilt /\ ChainBuilt' /\ lastRange # <<>>) =>
            /\ lastRange' = lastRange
            /\ Targets(highPassFiltersRef') = {20}
            /\ Targets(lowPassFiltersRef') = {20000}]_vars

\* C21 witness: the most recent call asked for 500 and 500 when no chain existed; the
\* chain built since carries 20 and 20000.
C21_Witness ==
    /\ lastRange # <<>>
    /\ ~lastRange[1].built
    /\ lastRange[1].minHz = 500 /\ lastRange[1].maxHz = 500
    /\ ChainBuilt
    /\ Targets(highPassFiltersRef) = {20}
    /\ Targets(lowPassFiltersRef) = {20000}

\* C22: a setFrequencyRange step leaves isPlaying, isReady, duration, currentTime, the
\* resume offset, the start reference, the held buffer, the session reference, the
\* sessions themselves and the update loop as they were.
C22_TransportUntouched ==
    [][\A minHz \in Frequencies, maxHz \in Frequencies :
         SetFrequencyRange(minHz, maxHz) =>
             UNCHANGED <<isPlaying, isReady, duration, currentTime, pauseTimeRef,
                         startTimeRef, audioBufferRef, sourceNodeRef, nodes, loads,
                         animationFrameRef, rafOther>>]_vars

\* C22 witness: the band was moved while a session was playing, and the session is
\* still playing with its update loop scheduled.
C22_Witness ==
    /\ lastRange # <<>> /\ lastRange[1].built
    /\ Targets(highPassFiltersRef) = {500}
    /\ isPlaying /\ isReady /\ HeldActive
    /\ animationFrameRef = "pending"

\* C23: once a call has been made on a built chain, the targets of every stage are the
\* clamped arguments of the most recent call, whatever calls came before it.
C23_LastCallWins ==
    (lastRange # <<>> /\ lastRange[1].built) =>
        /\ Targets(highPassFiltersRef) = {Max(20, lastRange[1].minHz)}
        /\ Targets(lowPassFiltersRef) = {Min(20000, lastRange[1].maxHz)}

\* C23 witness: the most recent call, made on a built chain, asked for 25000 and 5;
\* every high-pass stage targets 25000 and every low-pass stage 5.
C23_Witness ==
    /\ lastRange # <<>> /\ lastRange[1].built
    /\ lastRange[1].minHz = 25000 /\ lastRange[1].maxHz = 5
    /\ Targets(highPassFiltersRef) = {25000}
    /\ Targets(lowPassFiltersRef) = {5}

\* C26: a call of toLog or toLinear with min <= 0 or max <= min fails with InvalidRange
\* and returns no value.
C26_InvalidRangeRejected ==
    (mapping.fn # "none" /\ (mapping.min <= 0 \/ mapping.max <= mapping.min)) =>
        mapping.outcome = "InvalidRange"

\* C27: after any sequence of slider moves the frequency of the low slider is below
\* that of the high slider, and the most recent call the Player made to the engine
\* carries exactly these two frequencies, the lower first: a move that would cross the
\* other slider moved nothing and called nothing.
C27_SlidersOrdered ==
    /\ sliderHz[lowSlider] < sliderHz[highSlider]
    /\ lastRange # <<>> =>
          /\ lastRange[1].minHz = sliderHz[lowSlider]
          /\ lastRange[1].maxHz = sliderHz[highSlider]
          /\ lastRange[1].minHz < lastRange[1].maxHz

\* C27 witness: both sliders were moved, the low one up to the middle and the high one
\* back to the top, and the built chain carries the two frequencies.
C27_Witness ==
    /\ lowSlider = 50 /\ highSlider = 100
    /\ lastRange # <<>> /\ lastRange[1].built
    /\ lastRange[1].minHz = 632 /\ lastRange[1].maxHz = 20000
    /\ Targets(highPassFiltersRef) = {632}
    /\ Targets(lowPassFiltersRef) = {20000}

\* C28: the step in which the decode of the selected track succeeds, the commit and the
\* auto-play effect included, leaves the engine Playing with the held session active on
\* the newly decoded buffer, whether the track was the first selected or followed a
\* playing or a paused one.
C28_SelectedTrackPlays ==
    [][\A l \in 1..Len(loads) :
         (/\ currentTrack # Null
          /\ l = Len(loads)
          /\ loads[l].file = currentTrack
          /\ PlayerDecodeResolve(l)) =>
             /\ isPlaying'
             /\ HeldActive'
             /\ nodes'[sourceNodeRef'].buffer = l]_vars

\* C29: isPlaying is true exactly when a Playback Session is active, so the ended
\* notification of a session that pause() or loadFile() stopped does not clear
\* isPlaying once a later play() has started a new session.
C29_PlayingIffSessionActive == isPlaying <=> (ActiveNodes # {})

\* C30: when a loadFile() is called while the decode of an earlier one is unresolved,
\* then once every decode has succeeded the held buffer and the published duration are
\* those of the file requested last, whichever decode finished last.
C30_LatestRequestHeld ==
    (/\ Len(loads) >= 2
     /\ \A l \in 1..Len(loads) : loads[l].status = "ok") =>
        /\ audioBufferRef = Len(loads)
        /\ duration = Duration(loads[Len(loads)].file)

\* C31: the held buffer, the published duration and the resume offset are never
\* replaced or reset by a decode completion while a Playback Session is active: at
\* every step in which a decode completes, no session is playing.
C31_NoDecodeCompletionWhilePlaying ==
    [][(\E l \in 1..Len(loads) : DecodeResolve(l)) => ActiveNodes = {}]_vars

\* C32: in every reachable state the stored resume offset is at least 0 and at most
\* the duration of the held buffer, also after pause() was called once the clock had
\* passed the end of the track, or after the session had ended or been replaced.
C32_ResumeOffsetWithinBuffer ==
    /\ 0 <= pauseTimeRef
    /\ audioBufferRef # Null => pauseTimeRef <= BufferDuration(Eng, audioBufferRef)

\* C33: at most one position-update loop (a chain of scheduled animation-frame
\* callbacks) is pending in every reachable state, after any sequence of play, pause,
\* loadFile and end of stream.
C33_AtMostOneUpdateLoop ==
    rafOther + (IF animationFrameRef = "pending" THEN 1 ELSE 0) <= 1

\* C34: while the sweep is enabled, every callback of its timer sets slider positions
\* whose difference is the bandwidth captured when the sweep was enabled, with
\* 0 <= newLow <= newHigh <= 100, and calls setFrequencyRange with
\* 20 <= lowHz <= highHz <= 20000; the bandwidth is captured from the sliders when the
\* sweep is enabled and kept until the next enabling; a manual slider move disables the
\* sweep and clears its timer; a timer is live only while the sweep is enabled, and
\* only a live timer fires.
C34_SweepKeepsBand ==
    [][/\ SweepTick =>
            /\ isSweepEnabled /\ sweepInterval
            /\ highSlider' - lowSlider' = sweepRef.bandwidth
            /\ 0 <= lowSlider' /\ lowSlider' <= highSlider' /\ highSlider' <= 100
            /\ Len(lastRange') = 1
            /\ 20 <= lastRange'[1].minHz
            /\ lastRange'[1].minHz <= lastRange'[1].maxHz
            /\ lastRange'[1].maxHz <= 20000
       /\ IF ~isSweepEnabled /\ isSweepEnabled'
          THEN sweepRef'.bandwidth = highSlider - lowSlider
          ELSE sweepRef'.bandwidth = sweepRef.bandwidth
       /\ (isSweepEnabled /\ \E type \in {"low", "high"}, val \in Positions :
                                 HandleRangeChange(type, val))
              => ~isSweepEnabled' /\ ~sweepInterval'
       /\ sweepInterval' <=> isSweepEnabled'
      ]_vars

\* C34 witness: two callbacks of the timer have run in a sweep still enabled, whose
\* band of width 50 has left the bottom of the track and has retuned the built chain.
C34_Witness ==
    /\ isSweepEnabled /\ sweepInterval
    /\ sweepTicks = 2
    /\ sweepRef.bandwidth = 50
    /\ lowSlider > 0 /\ highSlider = lowSlider + 50
    /\ ChainBuilt
    /\ Targets(highPassFiltersRef) = {sliderHz[lowSlider]}
    /\ Targets(lowPassFiltersRef) = {sliderHz[highSlider]}

====
